---- MODULE Spec2Model ----
(***************************************************************************)
(* Model of the spectrum sweep notebook 03_rf_spectrum_sweep.ipynb:        *)
(* the two estimators calculate_simple_snr and calculate_fundamental, and  *)
(* the sweep driver run_spectrum_sweep with the tone generators and the    *)
(* spectrum analysers it drives.                                           *)
(*                                                                         *)
(* Units.  The notebook mixes MHz (frequency list, centre frequencies,     *)
(* the result tables) and Hz (sample_frequency, the plot centre, the       *)
(* argument of calculate_fundamental) and converts with *1e6 and *1e-6.    *)
(* The model keeps both as integers: a MHz quantity is held in kHz         *)
(* (1228.8 MHz is 1228800) and a Hz quantity in units of 10 Hz             *)
(* (2457.6e6 Hz is 245760000), so that x*1e6 is x*100 and y*1e-6 is        *)
(* y \div 100.  Real arithmetic is exact in the model; the rounding of     *)
(* binary floating point is not modelled.                                  *)
(***************************************************************************)
EXTENDS Integers, Sequences, FiniteSets, TLC

(***************************************************************************)
(* Bounds of the model.                                                    *)
(***************************************************************************)
\* longest frequency list handed to run_spectrum_sweep
MaxFrequencies == 2
\* largest number of tone generators in the global list `generators`
MaxGenerators == 2
\* largest number of spectrum analysers in the global list `analysers`
MaxAnalysers == 2
\* bins of a spectrum returned by an analyser (12288 in the notebook,
\* scaled down; the bin width sample_frequency/number_samples scales with it)
number_samples == 4
\* longest spectrum handed to an estimator on its own
MaxLen == 3
\* spectrum values handed to an estimator on its own are -1 .. MaxValue-1
MaxValue == 3

(***************************************************************************)
(* Program constants.                                                      *)
(***************************************************************************)
\* sample_frequency = 2457.6e6 (Hz), in units of 10 Hz
sample_frequency == 245760000
\* frequency_zones = [1228.8, 3686.4] (MHz), in kHz
frequency_zones == <<1228800, 3686400>>
\* transmitter_amplitude = 0.5, in tenths
transmitter_amplitude == 5

\* x*1e6: a MHz quantity (held in kHz) as a Hz quantity (held in 10 Hz)
MHzToHz(x) == x * 100
\* y*1e-6: a Hz quantity (held in 10 Hz) as a MHz quantity (held in kHz)
HzToMHz(y) == y \div 100

(***************************************************************************)
(* Exact rationals <<numerator, denominator>> in lowest terms with a       *)
(* positive denominator: the value of np.average and of the SNR.           *)
(***************************************************************************)
Abs(n) == IF n < 0 THEN -n ELSE n

RECURSIVE GCD(_, _)
GCD(a, b) == IF b = 0 THEN a ELSE GCD(b, a % b)

Rat(n, d) ==
    LET g == GCD(Abs(n), d)
    IN  <<n \div g, d \div g>>

RatSub(a, b) == Rat(a[1] * b[2] - b[1] * a[2], a[2] * b[2])

(***************************************************************************)
(* numpy primitives used by the estimators.                                *)
(***************************************************************************)
Range(s) == {s[i] : i \in 1..Len(s)}

\* np.max(spectrum)
np_max(spectrum) ==
    CHOOSE m \in Range(spectrum) : \A x \in Range(spectrum) : x <= m

RECURSIVE SumRange(_, _, _)
SumRange(s, lo, hi) ==
    IF lo > hi THEN 0
    ELSE IF lo = hi THEN s[lo]
    ELSE LET mid == (lo + hi) \div 2
         IN  SumRange(s, lo, mid) + SumRange(s, mid + 1, hi)

\* np.average(spectrum): the sum of all bins over their number
np_average(spectrum) == Rat(SumRange(spectrum, 1, Len(spectrum)), Len(spectrum))

\* The values np.argsort(spectrum)[-1:][0] can take, as 0-based indices: the
\* last index of an ascending sort is an index of a maximal element.  The
\* default sort kind of np.argsort is not stable, so when the maximum
\* occurs in several bins the order among them is not fixed by numpy
\* (a stable order yields the highest of them): any of them may come last.
argsort_first(spectrum) ==
    {i \in 0..(Len(spectrum) - 1) :
        \A j \in 1..Len(spectrum) : spectrum[i + 1] <= spectrum[j]}

argsort_last(spectrum) ==
    LET maxvalue == np_max(spectrum)
    IN  {i \in 0..(Len(spectrum) - 1) : spectrum[i + 1] = maxvalue}

(***************************************************************************)
(* The estimators (cell "Useful Measurements").                            *)
(***************************************************************************)
\* mutant: the mean taken over the bins other than one peak bin
snr_without_peak(spectrum) ==
    IF Len(spectrum) = 1 THEN Rat(0, 1)
    ELSE RatSub(Rat(np_max(spectrum), 1),
                Rat(SumRange(spectrum, 1, Len(spectrum)) - np_max(spectrum),
                    Len(spectrum) - 1))

\* def calculate_simple_snr(spectrum):
\*     return np.max(spectrum) - np.average(spectrum)
calculate_simple_snr(spectrum) ==
    RatSub(Rat(np_max(spectrum), 1), np_average(spectrum))

\* mutant: the receive centre frequency left out
fundamental_without_centre(spectrum, sample_freq, num_samples, receive_frequency) ==
    LET rbw == sample_freq \div num_samples
    IN  {maxindex * rbw - sample_freq \div 2 : maxindex \in argsort_last(spectrum)}

\* mutant: the bin frequencies count up from the receive centre, not from
\* the lower band edge
fundamental_from_band_centre(spectrum, sample_freq, num_samples, receive_frequency) ==
    LET rbw == sample_freq \div num_samples
    IN  {maxindex * rbw + receive_frequency : maxindex \in argsort_last(spectrum)}

\* mutant: the peak bin counted from 1 instead of 0
fundamental_off_by_one(spectrum, sample_freq, num_samples, receive_frequency) ==
    LET rbw == sample_freq \div num_samples
    IN  {(maxindex + 1) * rbw + receive_frequency - sample_freq \div 2 :
            maxindex \in argsort_last(spectrum)}

\* def calculate_fundamental(spectrum, sample_frequency, number_samples,
\*                           receive_frequency):
\*     rbw = sample_frequency/number_samples
\*     maxindex = np.argsort(spectrum)[-1:][0]
\*     return maxindex * rbw + receive_frequency - sample_frequency/2
\* The set of values the call can return (one per possible maxindex).
calculate_fundamental(spectrum, sample_freq, num_samples, receive_frequency) ==
    LET rbw == sample_freq \div num_samples
    IN  {maxindex * rbw + receive_frequency - sample_freq \div 2 :
            maxindex \in argsort_last(spectrum)}

(***************************************************************************)
(* calculate_simple_snr in floating point.  The spectrum is an array of    *)
(* binary floating-point numbers and np.max, np.average and the            *)
(* subtraction work in that format: every sum, the quotient and the        *)
(* difference are rounded to the nearest representable value, ties to the  *)
(* even significand.  The format is float64 scaled down to float_precision *)
(* significand bits; the exponent range is not limited (no overflow, no    *)
(* underflow) and the bins are finite numbers.                             *)
(***************************************************************************)
\* significand bits of the format (53 in float64)
float_precision == 3

RECURSIVE Pow2(_)
Pow2(k) == IF k = 0 THEN 1 ELSE 2 * Pow2(k - 1)

RatAdd(a, b) == Rat(a[1] * b[2] + b[1] * a[2], a[2] * b[2])
RatLeq(a, b) == a[1] * b[2] <= b[1] * a[2]

\* binary exponents of the values that occur
ExponentRange == (-(float_precision + 8))..(float_precision + 8)

\* the rational r rounded to float_precision significand bits, to nearest,
\* ties to even: r = +-q * 2^e with 2^(p-1) <= q < 2^p, q rounded to an
\* integer
fl(r) ==
    IF r[1] = 0 THEN <<0, 1>>
    ELSE LET a == Abs(r[1])
             d == r[2]
             up(x) == IF x < 0 THEN Pow2(-x) ELSE 1
             dn(x) == IF x > 0 THEN Pow2(x) ELSE 1
             floor(x) == (a * up(x)) \div (d * dn(x))
             e == CHOOSE x \in ExponentRange :
                      /\ Pow2(float_precision - 1) <= floor(x)
                      /\ floor(x) < Pow2(float_precision)
             q == floor(e)
             twice_rest == 2 * (a * up(e) - q * d * dn(e))
             rounded == IF twice_rest > d * dn(e) THEN q + 1
                        ELSE IF twice_rest < d * dn(e) THEN q
                        ELSE IF q % 2 = 0 THEN q ELSE q + 1
             sign == IF r[1] < 0 THEN -1 ELSE 1
         IN  Rat(sign * rounded * dn(e), up(e))

\* the sum np.average forms of the first n bins: for fewer than 8 bins
\* numpy adds them one after the other, rounding each sum
RECURSIVE np_add_reduce(_, _)
np_add_reduce(spectrum, n) ==
    IF n = 0 THEN <<0, 1>>
    ELSE fl(RatAdd(np_add_reduce(spectrum, n - 1), Rat(spectrum[n], 1)))

\* np.average(spectrum) in floating point: the rounded sum over the number
\* of bins, rounded
np_average_float(spectrum) ==
    LET total == np_add_reduce(spectrum, Len(spectrum))
    IN  fl(Rat(total[1], total[2] * Len(spectrum)))

\* mutant: the mean above the peak taken as the result
snr_float_mean_minus_peak(spectrum) ==
    fl(RatSub(np_average_float(spectrum), Rat(np_max(spectrum), 1)))

\* def calculate_simple_snr(spectrum):
\*     return np.max(spectrum) - np.average(spectrum)
\* as the floating-point arithmetic computes it
calculate_simple_snr_float(spectrum) ==
    fl(RatSub(Rat(np_max(spectrum), 1), np_average_float(spectrum)))

(***************************************************************************)
(* The numeric steps of 02_rf_spectrum_analysis.ipynb.                     *)
(*                                                                         *)
(* A complex sample is a record [re, im] of integers; a window coefficient *)
(* is an integer.  A frequency of this notebook is held in MHz.            *)
(***************************************************************************)
\* number_samples = 1229 of the analysis notebook, scaled down (odd, as 1229)
analysis_number_samples == 3
\* sample_frequency = 2458e6 of the analysis notebook, in MHz: 2 MHz per
\* sample, as 2458e6/1229, so that the scaling keeps the bin width
analysis_sample_frequency == 2 * analysis_number_samples

Complex(re, im) == [re |-> re, im |-> im]

\* z * w for a complex z and a real w
ComplexTimes(z, w) == Complex(z.re * w, z.im * w)

\* abs(z)**2
AbsSquared(z) == z.re * z.re + z.im * z.im

\* mutant: every sample multiplied by the first coefficient
multiply_by_first(x, w) ==
    IF Len(w) = 0 THEN [ok |-> FALSE, value |-> <<>>, error |-> "IndexError"]
    ELSE [ok |-> TRUE, value |-> [i \in 1..Len(x) |-> ComplexTimes(x[i], w[1])], error |-> "none"]

\* x * w of two one-dimensional numpy arrays (cdata[i]*window): elementwise
\* when the lengths agree; an array of length 1 is broadcast over the other;
\* any other pair of lengths raises ValueError (operands could not be
\* broadcast together)
np_multiply(x, w) ==
    IF Len(x) = Len(w)
    THEN [ok |-> TRUE, value |-> [i \in 1..Len(x) |-> ComplexTimes(x[i], w[i])], error |-> "none"]
    ELSE IF Len(w) = 1
    THEN [ok |-> TRUE, value |-> [i \in 1..Len(x) |-> ComplexTimes(x[i], w[1])], error |-> "none"]
    ELSE IF Len(x) = 1
    THEN [ok |-> TRUE, value |-> [i \in 1..Len(w) |-> ComplexTimes(x[1], w[i])], error |-> "none"]
    ELSE [ok |-> FALSE, value |-> <<>>, error |-> "ValueError"]

\* np.blackman(M): M coefficients, symmetric, zero at both ends (a single
\* coefficient is 1).  The coefficients are irrational; the model keeps a
\* symmetric taper with the same zeros, in integer units.
np_blackman(M) ==
    IF M = 1 THEN <<1>>
    ELSE [i \in 1..M |-> IF i - 1 < M - i THEN i - 1 ELSE M - i]

\* np.ones(M)
np_ones(M) == [i \in 1..M |-> 1]

\* the frequency index np.fft.fft keeps at output position j (0-based) of an
\* N-point transform: 0, 1, .. up to (N-1) div 2, then the negative ones
fftfreq(j, N) == IF j <= (N - 1) \div 2 THEN j ELSE j - N

\* the sum of the samples of x
RECURSIVE ComplexSum(_, _)
ComplexSum(x, n) ==
    IF n = 0 THEN Complex(0, 0)
    ELSE LET rest == ComplexSum(x, n - 1)
         IN  Complex(rest.re + x[n].re, rest.im + x[n].im)

\* np.fft.fft(x): bin j holds the coefficient of frequency index
\* fftfreq(j, N).  The coefficient at frequency 0 is the sum of the samples;
\* the others are sums with irrational weights, computed by numpy in
\* floating point: the model takes them from `coefficients`, which the
\* caller leaves open.
np_fft_fft(x, coefficients) ==
    [j \in 1..Len(x) |->
        [k |-> fftfreq(j - 1, Len(x)),
         value |-> IF j = 1 THEN ComplexSum(x, Len(x)) ELSE coefficients[j]]]

\* mutant: the roll is one position too far
fftshift_off_by_one(x) ==
    LET N == Len(x)
    IN  [i \in 1..N |-> x[((i - 1 - (N \div 2 + 1)) % N) + 1]]

\* np.fft.fftshift(x): the array rolled by N // 2 positions
np_fft_fftshift(x) ==
    LET N == Len(x)
    IN  [i \in 1..N |-> x[((i - 1 - N \div 2) % N) + 1]]

\* np.arange(-fs/2, fs/2, fs/N) + fc, the x-axis of plot_complex_spectrum
plot_x_axis(N, fs, fc) ==
    [i \in 1..N |-> -(fs \div 2) + (i - 1) * (fs \div N) + fc]

\* x / d in numpy: the rational x/d, or inf (held as <<1, 0>>) for a
\* positive x over 0, or nan (held as <<0, 0>>) for 0/0
np_divide(x, d) ==
    IF d # 0 THEN Rat(x, d) ELSE IF x > 0 THEN <<1, 0>> ELSE <<0, 0>>

\* psd > 0 in numpy (inf > 0 is True, nan > 0 is False)
np_greater_zero(r) == r[1] > 0

\* np.log10(r), kept exact as the record [log10_of |-> r]: log10(1) is 0,
\* log10(0) is -inf, log10(inf) is inf
np_log10(r) == [log10_of |-> r]

\* the number 0 among the values of np.log10
Zero == np_log10(<<1, 1>>)

\* 10 * v for a value v of np.log10: 10*0 is 0, 10*inf is inf
Times10(v) == [ten_log10_of |-> v.log10_of]

\* np.sum(window**2)
RECURSIVE SumSquares(_, _)
SumSquares(w, n) == IF n = 0 THEN 0 ELSE SumSquares(w, n - 1) + w[n] * w[n]

\* mutant: the logarithm taken of every bin, none replaced
freq_to_psd_unclamped(data, N, fs, window) ==
    LET energy == SumSquares(window, Len(window))
    IN  [i \in 1..Len(data) |->
            Times10(np_log10(np_divide(AbsSquared(data[i]), fs * energy)))]

\* mutant: the normalisation turned upside down
freq_to_psd_inverted(data, N, fs, window) ==
    LET energy == SumSquares(window, Len(window))
    IN  [i \in 1..Len(data) |->
            LET psd == np_divide(fs * energy, AbsSquared(data[i]))
            IN  Times10(IF np_greater_zero(psd) THEN np_log10(psd) ELSE Zero)]

\* def freq_to_psd(data, N=number_samples, fs=sample_frequency,
\*                 window=np.array(np.ones(number_samples)[:])):
\*     psd = (abs(data)**2)/(fs*np.sum(window**2))
\*     return 10*np.where(psd > 0, np.log10(psd), 0)
\* N is not used by the body.
freq_to_psd(data, N, fs, window) ==
    LET energy == SumSquares(window, Len(window))
    IN  [i \in 1..Len(data) |->
            LET psd == np_divide(AbsSquared(data[i]), fs * energy)
            IN  Times10(IF np_greater_zero(psd) THEN np_log10(psd) ELSE Zero)]

\* the default of freq_to_psd's window parameter, evaluated once when the
\* function is defined: np.array(np.ones(number_samples)[:])
default_window == np_ones(analysis_number_samples)

(***************************************************************************)
(* State.                                                                  *)
(***************************************************************************)
VARIABLES
    frequencies,        \* argument: the list of transmit frequencies (MHz)
    amplitude,          \* argument: the transmitter amplitude
    generators,         \* global list of ToneGenerator objects
    analysers,          \* global list of SpectrumAnalyser objects
    response,           \* the RF path in front of each analyser (hardware)
    fundamental,        \* local list
    snr,                \* local list
    results,            \* local list
    receive_frequency,  \* local
    spectrum,           \* local
    fi,                 \* position of `frequency` in frequencies (1-based)
    gi,                 \* position of `generator` in generators (1-based)
    ai,                 \* position of `analyser` in analysers (1-based)
    pc,                 \* the statement run_spectrum_sweep executes next
    state,              \* the sweep driver's state (IDLE .. DONE)
    returned,           \* <<>> until the call returns, then <<results>>
    raised,             \* "none", or the exception that left the call
    trace,              \* history: the collaborator calls made so far
    spectrum_from,      \* history: the update_spectrum call `spectrum` is from
    source,             \* history: per list entry of fundamental/snr, that call
    est,                \* a numeric function applied on its own: input and output
    nb                  \* the cells of the analysis notebook run so far

vars == <<frequencies, amplitude, generators, analysers, response, fundamental,
          snr, results, receive_frequency, spectrum, fi, gi, ai, pc, state,
          returned, raised, trace, spectrum_from, source, est, nb>>

sweep_vars == <<frequencies, amplitude, generators, analysers, response,
                fundamental, snr, results, receive_frequency, spectrum, fi, gi,
                ai, pc, state, returned, raised, trace, spectrum_from, source>>

\* exceptions a collaborator call may raise
Errors == {"OSError", "RuntimeError"}

\* rbw of the analysers, in MHz
BinWidthMHz == HzToMHz(sample_frequency \div number_samples)

\* transmit frequencies (MHz) the lists are drawn from: 200 MHz (the first
\* entry of frequency_list), one bin above 0, the sample frequency itself,
\* and two bins above the sample frequency
FrequencyChoices ==
    {200000, BinWidthMHz, HzToMHz(sample_frequency),
     HzToMHz(sample_frequency) + 2 * BinWidthMHz}

RECURSIVE SeqsUpTo(_, _)
SeqsUpTo(S, n) ==
    IF n = 0 THEN {<<>>}
    ELSE LET shorter == SeqsUpTo(S, n - 1)
         IN  shorter \cup {Append(s, x) : s \in {t \in shorter : Len(t) = n - 1}, x \in S}

\* RF paths: "loopback" shows the transmitted tone, "spur" a stronger
\* spurious line one bin above it
Responses == {"loopback", "spur"}

(***************************************************************************)
(* Collaborators: rfsystem.spectrum_sweep.ToneGenerator / SpectrumAnalyser *)
(***************************************************************************)
\* a ToneGenerator before the sweep: as constructed, or as the notebook's
\* initialisation cell left it (600 MHz, enabled, gain 0.5)
FreshGenerator == [enable |-> FALSE, gain |-> 0, centre_frequency |-> 0]
InitialisedGenerator ==
    [enable |-> TRUE, gain |-> transmitter_amplitude, centre_frequency |-> 600000]

\* the tone in front of analyser a: that of the generator cabled to it
Tone(a) ==
    IF Len(generators) = 0 THEN 0
    ELSE generators[IF a <= Len(generators) THEN a ELSE Len(generators)].centre_frequency

\* the bin of an analyser centred at rc (MHz) that holds frequency f (MHz)
BinOf(f, rc) ==
    LET rbw == sample_frequency \div number_samples
        offset == MHzToHz(f) - MHzToHz(rc) + sample_frequency \div 2
    IN  (offset \div rbw) % number_samples

\* the PSD vector a capture yields on RF path `kind` for tone f with the
\* analyser centred at rc: on loopback the peak (0 dB) stands 90 dB above
\* the mean of the vector
Capture(kind, f, rc) ==
    LET k == BinOf(f, rc)
        spur == (k + 1) % number_samples
    IN  IF kind = "loopback"
        THEN [i \in 1..number_samples |->
                IF i = k + 1 THEN 0 ELSE IF i = spur + 1 THEN -180 ELSE -90]
        ELSE [i \in 1..number_samples |-> IF i = spur + 1 THEN 5 ELSE 0]

\* one collaborator call in the history
Event(call, target, arg, ok) ==
    [call |-> call, target |-> target, fi |-> fi, arg |-> arg, ok |-> ok]

(***************************************************************************)
(* Initial states: run_spectrum_sweep is about to be called.               *)
(***************************************************************************)
SweepInit ==
    /\ frequencies \in SeqsUpTo(FrequencyChoices, MaxFrequencies)
    /\ amplitude = transmitter_amplitude
    /\ \E n \in 0..MaxGenerators, g \in {FreshGenerator, InitialisedGenerator} :
          generators = [i \in 1..n |-> g]
    /\ \E n \in 0..MaxAnalysers :
          /\ response \in [1..n -> Responses]
          /\ analysers =
                [i \in 1..n |->
                    [centre_frequency |-> 0,
                     plot_centre_frequency |-> 0,
                     spectrum |-> Capture(response[i], Tone(i), 0),
                     captured_at |-> 0]]
    /\ fundamental = <<>>
    /\ snr = <<>>
    /\ results = <<>>
    /\ receive_frequency = 0
    /\ spectrum = <<>>
    /\ fi = 0
    /\ gi = 1
    /\ ai = 1
    /\ pc = "begin"
    /\ state = "IDLE"
    /\ returned = <<>>
    /\ raised = "none"
    /\ trace = <<>>
    /\ spectrum_from = 0
    /\ source = <<>>

NoEst == [op |-> "none", fn |-> "none"]

\* the analysis notebook is not run
NotRun == [cell |-> "not_run"]

Init ==
    /\ SweepInit
    /\ est = NoEst
    /\ nb = NotRun

(***************************************************************************)
(* run_spectrum_sweep, statement by statement.                             *)
(***************************************************************************)
Goto(label, f, g, a) ==
    /\ pc' = label
    /\ fi' = f
    /\ gi' = g
    /\ ai' = a

\* mutant: the generators are not configured inside the frequency loop
StartIterationAtSleep(k) == Goto("sleep", k, 1, 1)

\* `for frequency in frequencies:` takes entry k, whose first statement is
\* the first generator's (or, with no generator, the sleep)
StartIteration(k) ==
    IF Len(generators) > 0 THEN Goto("enable", k, 1, 1) ELSE Goto("sleep", k, 1, 1)

\* the body of `for frequency in frequencies:` is through: the loop takes
\* the next entry, or ends and the result tables are built
AfterIteration ==
    IF fi < Len(frequencies) THEN StartIteration(fi + 1) ELSE Goto("build", fi, 1, 1)

\* mutant: the analyser loop is left after its first pass
AfterAnalyserBreak == AfterIteration

\* `for analyser in analysers:` takes the next analyser, or ends
AfterAnalyser ==
    IF ai < Len(analysers) THEN Goto("selector", fi, 1, ai + 1) ELSE AfterIteration

\* mutant: the zone boundary itself still counted to the low zone
select_zone_inclusive(frequency) ==
    IF MHzToHz(frequency) <= sample_frequency
    THEN frequency_zones[1]
    ELSE frequency_zones[2]

\* if frequency*1e6 < sample_frequency:
\*     receive_frequency = frequency_zones[0]
\* else:
\*     receive_frequency = frequency_zones[1]
select_zone(frequency) ==
    IF MHzToHz(frequency) < sample_frequency
    THEN frequency_zones[1]
    ELSE frequency_zones[2]

\* mutant: fundamental[i*n:(i+1)*n] in place of fundamental[i::n]
Chunk(seq, start, step) ==
    [k \in 1..(IF start * step + step <= Len(seq) THEN step ELSE 0) |->
        seq[start * step + k]]

\* seq[start::step] (start 0-based, step > 0)
Slice(seq, start, step) ==
    [k \in 1..((Len(seq) - start + step - 1) \div step) |->
        seq[start + (k - 1) * step + 1]]

\* mutant: the loop body is entered before the list is tested
StartWithoutListTest ==
    /\ pc = "begin"
    /\ fundamental' = <<>>
    /\ snr' = <<>>
    /\ results' = <<>>
    /\ StartIteration(1)
    /\ UNCHANGED <<frequencies, amplitude, generators, analysers, response,
                   receive_frequency, spectrum, state, returned, raised, trace,
                   spectrum_from, source, est, nb>>

\* fundamental = []; snr = []; results = []; frequency_zones = [...]
\* and the first `for frequency in frequencies:`
Start ==
    /\ pc = "begin"
    /\ fundamental' = <<>>
    /\ snr' = <<>>
    /\ results' = <<>>
    /\ IF Len(frequencies) > 0 THEN StartIteration(1) ELSE Goto("build", 0, 1, 1)
    /\ UNCHANGED <<frequencies, amplitude, generators, analysers, response,
                   receive_frequency, spectrum, state, returned, raised, trace,
                   spectrum_from, source, est, nb>>

\* generator.amplitude_controller.enable = True
SetEnable ==
    /\ pc = "enable"
    /\ generators' = [generators EXCEPT ![gi].enable = TRUE]
    /\ trace' = Append(trace, Event("enable", gi, TRUE, TRUE))
    /\ state' = "CONFIGURE_TX"
    /\ Goto("gain", fi, gi, ai)
    /\ UNCHANGED <<frequencies, amplitude, analysers, response, fundamental, snr,
                   results, receive_frequency, spectrum, returned, raised,
                   spectrum_from, source, est, nb>>

\* generator.amplitude_controller.gain = amplitude
SetGain ==
    /\ pc = "gain"
    /\ generators' = [generators EXCEPT ![gi].gain = amplitude]
    /\ trace' = Append(trace, Event("gain", gi, amplitude, TRUE))
    /\ state' = "CONFIGURE_TX"
    /\ Goto("centre_frequency", fi, gi, ai)
    /\ UNCHANGED <<frequencies, amplitude, analysers, response, fundamental, snr,
                   results, receive_frequency, spectrum, returned, raised,
                   spectrum_from, source, est, nb>>

\* generator.frequency_selector.centre_frequency = frequency
\* and the next `for generator in generators:`
SetCentreFrequency ==
    /\ pc = "centre_frequency"
    /\ generators' = [generators EXCEPT ![gi].centre_frequency = frequencies[fi]]
    /\ trace' = Append(trace, Event("centre_frequency", gi, frequencies[fi], TRUE))
    /\ state' = "CONFIGURE_TX"
    /\ IF gi < Len(generators)
       THEN Goto("enable", fi, gi + 1, 1)
       ELSE Goto("sleep", fi, 1, 1)
    /\ UNCHANGED <<frequencies, amplitude, analysers, response, fundamental, snr,
                   results, receive_frequency, spectrum, returned, raised,
                   spectrum_from, source, est, nb>>

\* time.sleep(1) and the first `for analyser in analysers:`
Sleep ==
    /\ pc = "sleep"
    /\ trace' = Append(trace, Event("sleep", 0, 1, TRUE))
    /\ state' = "SETTLE"
    /\ IF Len(analysers) > 0 THEN Goto("selector", fi, 1, 1) ELSE AfterIteration
    /\ UNCHANGED <<frequencies, amplitude, generators, analysers, response,
                   fundamental, snr, results, receive_frequency, spectrum,
                   returned, raised, spectrum_from, source, est, nb>>

\* if frequency*1e6 < sample_frequency: ... else: ...
\* analyser.frequency_selector.centre_frequency = receive_frequency
SetSelector ==
    /\ pc = "selector"
    /\ receive_frequency' = select_zone(frequencies[fi])
    /\ analysers' = [analysers EXCEPT ![ai].centre_frequency = receive_frequency']
    /\ trace' = Append(trace, Event("selector", ai, receive_frequency', TRUE))
    /\ state' = "CONFIGURE_RX"
    /\ Goto("plot", fi, gi, ai)
    /\ UNCHANGED <<frequencies, amplitude, generators, response, fundamental, snr,
                   results, spectrum, returned, raised, spectrum_from, source,
                   est, nb>>

\* analyser.spectrum_plot.centre_frequency = receive_frequency*1e6
SetPlotCentre ==
    /\ pc = "plot"
    /\ analysers' =
          [analysers EXCEPT ![ai].plot_centre_frequency = MHzToHz(receive_frequency)]
    /\ trace' = Append(trace, Event("plot", ai, MHzToHz(receive_frequency), TRUE))
    /\ state' = "CONFIGURE_RX"
    /\ Goto("update_spectrum", fi, gi, ai)
    /\ UNCHANGED <<frequencies, amplitude, generators, response, fundamental, snr,
                   results, receive_frequency, spectrum, returned, raised,
                   spectrum_from, source, est, nb>>

\* mutant: the analyser is not refreshed (its last spectrum stays)
SkipUpdateSpectrum ==
    /\ pc = "update_spectrum"
    /\ state' = "CAPTURE_ANALYZE"
    /\ Goto("get_spectrum", fi, gi, ai)
    /\ UNCHANGED <<frequencies, amplitude, generators, analysers, response,
                   fundamental, snr, results, receive_frequency, spectrum,
                   returned, raised, trace, spectrum_from, source, est, nb>>

\* analyser.update_spectrum(): a new capture and transform; the analyser
\* keeps the PSD vector.  The event records the vector and the centre
\* frequencies the analyser had when it was refreshed.
UpdateSpectrum ==
    /\ pc = "update_spectrum"
    /\ LET captured == Capture(response[ai], Tone(ai), analysers[ai].centre_frequency)
       IN  /\ analysers' = [analysers EXCEPT ![ai].spectrum = captured,
                                             ![ai].captured_at = Len(trace) + 1]
           /\ trace' = Append(trace,
                 Event("update_spectrum", ai,
                       [spectrum |-> captured,
                        centre_frequency |-> analysers[ai].centre_frequency,
                        plot_centre_frequency |-> analysers[ai].plot_centre_frequency],
                       TRUE))
    /\ state' = "CAPTURE_ANALYZE"
    /\ Goto("get_spectrum", fi, gi, ai)
    /\ UNCHANGED <<frequencies, amplitude, generators, response, fundamental, snr,
                   results, receive_frequency, spectrum, returned, raised,
                   spectrum_from, source, est, nb>>

\* spectrum = analyser.get_spectrum(): the latest PSD vector
\* (maxvalue and maxindex, computed next, are never read)
GetSpectrum ==
    /\ pc = "get_spectrum"
    /\ spectrum' = analysers[ai].spectrum
    /\ spectrum_from' = analysers[ai].captured_at
    /\ trace' = Append(trace, Event("get_spectrum", ai, analysers[ai].spectrum, TRUE))
    /\ state' = "CAPTURE_ANALYZE"
    /\ Goto("append", fi, gi, ai)
    /\ UNCHANGED <<frequencies, amplitude, generators, analysers, response,
                   fundamental, snr, results, receive_frequency, returned, raised,
                   source, est, nb>>

\* fundamental.append(calculate_fundamental(spectrum, sample_frequency,
\*     number_samples, receive_frequency*1e6)*1e-6)
\* snr.append(calculate_simple_snr(spectrum))
\* and the next `for analyser in analysers:`
AppendMeasurement ==
    /\ pc = "append"
    /\ \E f \in calculate_fundamental(spectrum, sample_frequency, number_samples,
                                      MHzToHz(receive_frequency)) :
          fundamental' = Append(fundamental, HzToMHz(f))
    /\ snr' = Append(snr, calculate_simple_snr(spectrum))
    /\ source' = Append(source, spectrum_from)
    /\ state' = "RECORD"
    /\ AfterAnalyser
    /\ UNCHANGED <<frequencies, amplitude, generators, analysers, response,
                   results, receive_frequency, spectrum, returned, raised, trace,
                   spectrum_from, est, nb>>

\* the tables np.array([frequencies, fundamental[i::n], snr[i::n]]), one per
\* i in range(0, len(analysers)), each held as its three rows
BuildResults ==
    [i \in 1..Len(analysers) |->
        <<frequencies,
          Slice(fundamental, i - 1, Len(analysers)),
          Slice(snr, i - 1, Len(analysers))>>]

\* mutant: the generators are switched off before the tables are returned
ReturnDisabling ==
    /\ pc = "build"
    /\ results' = BuildResults
    /\ returned' = <<results'>>
    /\ state' = "DONE"
    /\ generators' = [g \in 1..Len(generators) |->
                         [generators[g] EXCEPT !.enable = FALSE]]
    /\ Goto("done", fi, gi, ai)
    /\ UNCHANGED <<frequencies, amplitude, analysers, response,
                   fundamental, snr, receive_frequency, spectrum, raised, trace,
                   spectrum_from, source, est, nb>>

\* for i in range(0, len(analysers)): results.append(...)
\* return results
Return ==
    /\ pc = "build"
    /\ results' = BuildResults
    /\ returned' = <<results'>>
    /\ state' = "DONE"
    /\ Goto("done", fi, gi, ai)
    /\ UNCHANGED <<frequencies, amplitude, generators, analysers, response,
                   fundamental, snr, receive_frequency, spectrum, raised, trace,
                   spectrum_from, source, est, nb>>

\* the statements that call a collaborator, and the collaborator called
CallSites ==
    {"enable", "gain", "centre_frequency", "selector", "plot",
     "update_spectrum", "get_spectrum"}

CallTarget == IF pc \in {"enable", "gain", "centre_frequency"} THEN gi ELSE ai

\* mutant: the failed call is made again
RetryCall(e) ==
    /\ trace' = Append(trace, Event(pc, CallTarget, e, FALSE))
    /\ UNCHANGED <<frequencies, amplitude, generators, analysers, response,
                   fundamental, snr, results, receive_frequency, spectrum, fi,
                   gi, ai, pc, state, returned, raised, spectrum_from, source,
                   est, nb>>

\* run_spectrum_sweep has no try statement: an exception raised by the
\* statement at pc leaves the function, which returns nothing
Propagate(e) ==
    /\ trace' = Append(trace, Event(pc, CallTarget, e, FALSE))
    /\ raised' = e
    /\ pc' = "raised"
    /\ UNCHANGED <<frequencies, amplitude, generators, analysers, response,
                   fundamental, snr, results, receive_frequency, spectrum, fi,
                   gi, ai, state, returned, spectrum_from, source, est, nb>>

\* the collaborator called at pc raises e
CollaboratorRaises ==
    /\ pc \in CallSites
    /\ \E e \in Errors : Propagate(e)

\* the sweep with collaborators that do not raise
SweepStep ==
    \/ Start
    \/ SetEnable
    \/ SetGain
    \/ SetCentreFrequency
    \/ Sleep
    \/ SetSelector
    \/ SetPlotCentre
    \/ UpdateSpectrum
    \/ GetSpectrum
    \/ AppendMeasurement
    \/ Return

Next ==
    \/ SweepStep
    \/ CollaboratorRaises

Spec == Init /\ [][Next]_vars

\* collaborators that do not raise; every statement that can run does run
NoRaiseSpec == Init /\ [][SweepStep]_vars /\ WF_vars(SweepStep)

(***************************************************************************)
(* The estimators applied on their own to a spectrum.                      *)
(***************************************************************************)
SpectrumValues == -1..(MaxValue - 1)

\* a spectrum of n bins, flat at F but for bin k (0-based), which holds H
SpikeSpectrum(n, k, H, F) == [i \in 1..n |-> IF i = k + 1 THEN H ELSE F]

\* the spectra handed to an estimator: every short one, and spikes in a
\* spectrum of 1024 bins
EstSpectra ==
    (SeqsUpTo(SpectrumValues, MaxLen) \ {<<>>})
        \cup {SpikeSpectrum(1024, k, 0, -90) : k \in {0, 1, 512, 1023}}

\* sample frequencies (Hz, in 10 Hz) for a spectrum of n bins: such that
\* the bin width and the half sample frequency are whole
EstSampleFrequencies(n) ==
    {sample_frequency} \cup (IF n <= MaxLen THEN {2 * n} ELSE {})

\* receive centre frequencies (Hz, in 10 Hz)
EstReceiveFrequencies ==
    {0, MHzToHz(frequency_zones[1]), MHzToHz(frequency_zones[2])}

\* the sweep is not running
SweepIdle ==
    /\ frequencies = <<>>
    /\ amplitude = transmitter_amplitude
    /\ generators = <<>>
    /\ analysers = <<>>
    /\ response = <<>>
    /\ fundamental = <<>>
    /\ snr = <<>>
    /\ results = <<>>
    /\ receive_frequency = 0
    /\ spectrum = <<>>
    /\ fi = 0
    /\ gi = 1
    /\ ai = 1
    /\ pc = "idle"
    /\ state = "IDLE"
    /\ returned = <<>>
    /\ raised = "none"
    /\ trace = <<>>
    /\ spectrum_from = 0
    /\ source = <<>>

EstInit ==
    /\ SweepIdle
    /\ \E s \in EstSpectra :
       \E sf \in EstSampleFrequencies(Len(s)), rf \in EstReceiveFrequencies :
          est = [op |-> "input", fn |-> "estimator", spectrum |-> s,
                 sample_frequency |-> sf,
                 number_samples |-> Len(s), receive_frequency |-> rf,
                 result |-> 0]
    /\ nb = NotRun

\* calculate_fundamental(spectrum, sample_frequency, number_samples,
\*                       receive_frequency) is called and returns
ApplyFundamental ==
    /\ est.op = "input"
    /\ est.fn = "estimator"
    /\ \E f \in calculate_fundamental(est.spectrum, est.sample_frequency,
                                      est.number_samples, est.receive_frequency) :
          est' = [est EXCEPT !.op = "calculate_fundamental", !.result = f]
    /\ UNCHANGED <<sweep_vars, nb>>

\* calculate_simple_snr(spectrum) is called and returns
ApplySnr ==
    /\ est.op = "input"
    /\ est.fn = "estimator"
    /\ est' = [est EXCEPT !.op = "calculate_simple_snr",
                          !.result = calculate_simple_snr(est.spectrum)]
    /\ UNCHANGED <<sweep_vars, nb>>

EstNext ==
    \/ ApplyFundamental
    \/ ApplySnr

EstSpec == EstInit /\ [][EstNext]_vars

(***************************************************************************)
(* The numeric steps of the analysis notebook applied on their own.        *)
(***************************************************************************)
\* longest vector handed to the reorder or the transform on its own
MaxShiftLen == 4

\* complex values of samples and of transform coefficients
ComplexValues == {Complex(0, 0), Complex(1, 0), Complex(0, -2)}

\* window coefficients
WindowValues == {0, 1, 2}

\* sample frequencies (MHz) for a transform of n points: such that the bin
\* width fs/n and fs/2 are whole
StepSampleFrequencies(n) == IF n = 0 THEN {2} ELSE {2 * n, 4 * n}

\* the values numpy may compute for the coefficients of an n-point transform
\* other than the one at frequency 0
Coefficients(n) == [1..n -> {Complex(0, 0), Complex(1, 0)}]

\* the arguments of one call
StepInputs ==
    {[op |-> "input", fn |-> "windowing", data |-> x, window |-> w, fs |-> 0,
      result |-> <<>>] :
        x \in SeqsUpTo(ComplexValues, MaxLen), w \in SeqsUpTo(WindowValues, MaxLen)}
    \cup
    {[op |-> "input", fn |-> "fftshift", data |-> x, window |-> <<>>, fs |-> 0,
      result |-> <<>>] :
        x \in SeqsUpTo(ComplexValues, MaxShiftLen)}
    \cup
    UNION {{[op |-> "input", fn |-> "transform", data |-> x, window |-> <<>>,
             fs |-> f, result |-> <<>>] : f \in StepSampleFrequencies(Len(x))} :
            x \in SeqsUpTo(ComplexValues, MaxShiftLen)}
    \cup
    {[op |-> "input", fn |-> "freq_to_psd", data |-> x, window |-> w, fs |-> f,
      result |-> <<>>] :
        x \in SeqsUpTo(ComplexValues, MaxLen), w \in SeqsUpTo(WindowValues, MaxLen),
        f \in {1, 2}}
    \cup
    {[op |-> "input", fn |-> "freq_to_psd_default", data |-> x,
      window |-> <<>>, fs |-> f, result |-> <<>>] :
        x \in SeqsUpTo(ComplexValues, MaxLen), f \in {1, 2}}

StepInit ==
    /\ SweepIdle
    /\ est \in StepInputs
    /\ nb = NotRun

\* cdata[i]*window
ApplyWindowing ==
    /\ est.op = "input"
    /\ est.fn = "windowing"
    /\ est' = [est EXCEPT !.op = "windowing",
                          !.result = np_multiply(est.data, est.window)]
    /\ UNCHANGED <<sweep_vars, nb>>

\* np.fft.fftshift, once and once more on its own result
ApplyFftshift ==
    /\ est.fn = "fftshift"
    /\ \/ /\ est.op = "input"
          /\ est' = [est EXCEPT !.op = "fftshift",
                                !.result = np_fft_fftshift(est.data)]
       \/ /\ est.op = "fftshift"
          /\ est' = [est EXCEPT !.op = "fftshift_twice",
                                !.result = np_fft_fftshift(est.result)]
    /\ UNCHANGED <<sweep_vars, nb>>

\* np.fft.fftshift(np.fft.fft(wdata[i]))
ApplyTransform ==
    /\ est.op = "input"
    /\ est.fn = "transform"
    /\ \E c \in Coefficients(Len(est.data)) :
          est' = [est EXCEPT !.op = "transform",
                             !.result = np_fft_fftshift(np_fft_fft(est.data, c))]
    /\ UNCHANGED <<sweep_vars, nb>>

\* freq_to_psd(data=..., fs=..., window=...)
ApplyPsd ==
    /\ est.op = "input"
    /\ est.fn = "freq_to_psd"
    /\ est' = [est EXCEPT !.op = "freq_to_psd",
                          !.result = freq_to_psd(est.data, Len(est.data), est.fs,
                                                 est.window)]
    /\ UNCHANGED <<sweep_vars, nb>>

\* freq_to_psd(data=..., fs=...), the window left to its default
ApplyPsdDefault ==
    /\ est.op = "input"
    /\ est.fn = "freq_to_psd_default"
    /\ est' = [est EXCEPT !.op = "freq_to_psd_default",
                          !.window = default_window,
                          !.result = freq_to_psd(est.data, Len(est.data), est.fs,
                                                 default_window)]
    /\ UNCHANGED <<sweep_vars, nb>>

StepNext ==
    \/ ApplyWindowing
    \/ ApplyFftshift
    \/ ApplyTransform
    \/ ApplyPsd
    \/ ApplyPsdDefault

StepSpec == StepInit /\ [][StepNext]_vars

(***************************************************************************)
(* The analysis notebook, cell by cell, as "Run All" runs it.              *)
(***************************************************************************)
\* largest number of receiver channels, len(base.radio.receiver.channel)
MaxChannels == 4

\* the vectors of n samples a receiver channel may hand over: a constant
\* level, or a single pulse
CaptureVectors(n) ==
    {[i \in 1..n |-> c] : c \in ComplexValues}
        \cup {[i \in 1..n |-> IF i = 1 THEN Complex(1, 0) ELSE Complex(0, 0)]}

\* base.radio.receiver.channel[i].transfer(n): the n samples captured
transfer(n, samples) == [i \in 1..n |-> samples[i]]

\* the values numpy may compute for the coefficients of one transform of
\* the notebook: all other than the one at frequency 0 alike
FlatCoefficients(n) == {[j \in 1..n |-> c] : c \in {Complex(0, 0), Complex(1, 0)}}

\* adc_block.MixerSettings['Freq'] of the receiver channels 0, 1, .. (MHz,
\* in tenths): all at -1228.8 MHz, or each channel at a frequency of its own
MixerSettings(n) ==
    {[i \in 1..n |-> -12288], [i \in 1..n |-> 9005 + 1000 * (i - 1)]}

AnalysisInit ==
    /\ SweepIdle
    /\ est = NoEst
    /\ \E n \in 0..MaxChannels : \E mixer \in MixerSettings(n) :
          nb = [cell |-> "capture", channels |-> n, mixer |-> mixer,
                cdata |-> <<>>, window |-> <<>>, wdata |-> <<>>, origin |-> <<>>,
                fdata |-> <<>>, magfigs |-> <<>>, psd |-> <<>>, psdfigs |-> <<>>,
                error |-> "none"]

\* cdata = []
\* for i in range(0, len(base.radio.receiver.channel)):
\*     cdata.append(base.radio.receiver.channel[i].transfer(number_samples))
CaptureCell ==
    /\ nb.cell = "capture"
    /\ \E samples \in [1..nb.channels -> CaptureVectors(analysis_number_samples)] :
          nb' = [nb EXCEPT
                    !.cell = "window",
                    !.cdata = [i \in 1..nb.channels |->
                                  transfer(analysis_number_samples, samples[i])]]
    /\ UNCHANGED <<sweep_vars, est>>

\* mutant: the window one coefficient short
WindowCellShort ==
    /\ nb.cell = "window"
    /\ nb' = [nb EXCEPT !.cell = "windowing",
                        !.window = np_blackman(analysis_number_samples - 1)]
    /\ UNCHANGED <<sweep_vars, est>>

\* window = np.array(np.blackman(number_samples)[:])
WindowCell ==
    /\ nb.cell = "window"
    /\ nb' = [nb EXCEPT !.cell = "windowing",
                        !.window = np_blackman(analysis_number_samples)]
    /\ UNCHANGED <<sweep_vars, est>>

\* the products cdata[i]*window of the windowing cell, for i = 2, 3, ..
Products ==
    [k \in 1..(IF nb.channels > 2 THEN nb.channels - 2 ELSE 0) |->
        np_multiply(nb.cdata[k + 2], nb.window)]

\* the first k for which Products[k] raises, or Len(Products) + 1
RECURSIVE FirstFailure(_, _)
FirstFailure(products, k) ==
    IF k > Len(products) \/ ~products[k].ok THEN k
    ELSE FirstFailure(products, k + 1)

\* mutant: the samples are windowed in place (cdata[i] *= window)
WindowingCellInPlace ==
    /\ nb.cell = "windowing"
    /\ LET products == Products
           stop == FirstFailure(products, 1)
       IN  nb' = [nb EXCEPT
                    !.cell = IF stop > Len(products) THEN "fft" ELSE "raised",
                    !.error = IF stop > Len(products) THEN "none"
                              ELSE products[stop].error,
                    !.cdata = [i \in 1..Len(nb.cdata) |->
                                  IF i > 2 /\ i - 2 < stop
                                  THEN products[i - 2].value ELSE nb.cdata[i]],
                    !.wdata = [k \in 1..(stop - 1) |-> products[k].value],
                    !.origin = [k \in 1..(stop - 1) |-> k + 1]]
    /\ UNCHANGED <<sweep_vars, est>>

\* wdata = []
\* for i in range(2, len(base.radio.receiver.channel)):
\*     wdata.append(cdata[i]*window)
\* A product that raises ends the cell and the run.  origin is history: the
\* receiver channel i whose samples each entry of wdata is made of.
WindowingCell ==
    /\ nb.cell = "windowing"
    /\ LET products == Products
           stop == FirstFailure(products, 1)
       IN  nb' = [nb EXCEPT
                    !.cell = IF stop > Len(products) THEN "fft" ELSE "raised",
                    !.error = IF stop > Len(products) THEN "none"
                              ELSE products[stop].error,
                    !.wdata = [k \in 1..(stop - 1) |-> products[k].value],
                    !.origin = [k \in 1..(stop - 1) |-> k + 1]]
    /\ UNCHANGED <<sweep_vars, est>>

\* fdata = []
\* for i in range(0, len(wdata)):
\*     fdata.append(np.fft.fftshift(np.fft.fft(wdata[i])))
FftCell ==
    /\ nb.cell = "fft"
    /\ \E c \in [1..Len(nb.wdata) -> FlatCoefficients(analysis_number_samples)] :
          nb' = [nb EXCEPT
                    !.cell = "magfigs",
                    !.fdata = [i \in 1..Len(nb.wdata) |->
                                  np_fft_fftshift(np_fft_fft(nb.wdata[i], c[i]))]]
    /\ UNCHANGED <<sweep_vars, est>>

\* the complex values of a spectrum, bin by bin
ValuesOf(bins) == [j \in 1..Len(bins) |-> bins[j].value]

\* psd = []
\* for i in range(0, len(fdata)):
\*     psd.append(freq_to_psd(data=fdata[i], window=window))
PsdCell ==
    /\ nb.cell = "psd"
    /\ nb' = [nb EXCEPT
                !.cell = "psdfigs",
                !.psd = [i \in 1..Len(nb.fdata) |->
                            freq_to_psd(ValuesOf(nb.fdata[i]), analysis_number_samples,
                                        analysis_sample_frequency, nb.window)]]
    /\ UNCHANGED <<sweep_vars, est>>

\* round(x) of Python for x >= 0 held in tenths: to the nearest integer,
\* a half to the even one
round(tenths) ==
    LET q == tenths \div 10
        r == tenths % 10
    IN  IF r < 5 THEN q
        ELSE IF r > 5 THEN q + 1
        ELSE IF q % 2 = 0 THEN q ELSE q + 1

\* abs(z) of a complex z, kept exact as the record [sqrt_of |-> abs(z)**2]
np_abs(z) == [sqrt_of |-> AbsSquared(z)]

\* def plot_complex_spectrum(data, N=number_samples, fs=sample_frequency,
\*                           title='Complex Spectrum Plot', units='dBW', fc=0):
\* the figure, as its x values, y values, title and y-axis title
plot_complex_spectrum(data, N, fs, title, units, fc) ==
    [x |-> plot_x_axis(N, fs, fc), y |-> data, title |-> title, units |-> units]

\* the fc argument of both figure cells for loop index i (0-based), in MHz:
\* round(abs(base.radio.receiver.channel[i].adc_block.MixerSettings['Freq']))
FigureCentre(i) == round(Abs(nb.mixer[i + 1]))

\* magfigs = []
\* for i in range(0, len(fdata)):
\*     magfigs.append(plot_complex_spectrum(data=abs(fdata[i]),
\*         title=''.join(['Frequency Magnitude Plot of ADC Channel ', str(i+2)]),
\*         units='|Y(f)|',
\*         fc=round(abs(base.radio.receiver.channel[i]
\*                          .adc_block.MixerSettings['Freq']))*1e6))
\* Each entry holds the figure and, as history, the channel whose samples
\* it shows and the channel whose mixer frequency it is centred on.
MagFigsCell ==
    /\ nb.cell = "magfigs"
    /\ nb' = [nb EXCEPT
                !.cell = "psd",
                !.magfigs =
                    [k \in 1..Len(nb.fdata) |->
                        [figure |-> plot_complex_spectrum(
                                        [j \in 1..Len(nb.fdata[k]) |->
                                            np_abs(nb.fdata[k][j].value)],
                                        analysis_number_samples,
                                        analysis_sample_frequency,
                                        [text |-> "Frequency Magnitude Plot of ADC Channel ",
                                         channel |-> (k - 1) + 2],
                                        "|Y(f)|",
                                        FigureCentre(k - 1)),
                         data_channel |-> nb.origin[k],
                         fc_channel |-> k - 1]]]
    /\ UNCHANGED <<sweep_vars, est>>

\* psdfigs = []
\* for i in range(0, len(psd)):
\*     psdfigs.append(plot_complex_spectrum(data=psd[i],
\*         title=''.join(['Power Spectral Density Plot of ADC Channel ', str(i+2)]),
\*         units='Amplitude (dB)',
\*         fc=round(abs(base.radio.receiver.channel[i]
\*                          .adc_block.MixerSettings['Freq']))*1e6))
PsdFigsCell ==
    /\ nb.cell = "psdfigs"
    /\ nb' = [nb EXCEPT
                !.cell = "done",
                !.psdfigs =
                    [k \in 1..Len(nb.psd) |->
                        [figure |-> plot_complex_spectrum(
                                        nb.psd[k],
                                        analysis_number_samples,
                                        analysis_sample_frequency,
                                        [text |-> "Power Spectral Density Plot of ADC Channel ",
                                         channel |-> (k - 1) + 2],
                                        "Amplitude (dB)",
                                        FigureCentre(k - 1)),
                         data_channel |-> nb.origin[k],
                         fc_channel |-> k - 1]]]
    /\ UNCHANGED <<sweep_vars, est>>

AnalysisNext ==
    \/ CaptureCell
    \/ WindowCell
    \/ WindowingCell
    \/ FftCell
    \/ MagFigsCell
    \/ PsdCell
    \/ PsdFigsCell

AnalysisSpec == AnalysisInit /\ [][AnalysisNext]_vars

(***************************************************************************)
(* Everything above, side by side: the sweep, the estimators and the       *)
(* numeric steps on their own, and the analysis notebook.                  *)
(***************************************************************************)
\* bin values, all representable: the two largest magnitudes of the top
\* binade, a power of two and 0
FloatValues ==
    LET top == Pow2(float_precision)
    IN  {-(top - 1), -(top - 2), -(top \div 2), 0, top - 2}

FloatInit ==
    /\ SweepIdle
    /\ \E s \in SeqsUpTo(FloatValues, MaxLen) \ {<<>>} :
          est = [op |-> "input", fn |-> "float_snr", spectrum |-> s,
                 mean |-> <<0, 1>>, result |-> <<0, 1>>]
    /\ nb = NotRun

\* snr = calculate_simple_snr(spectrum); mean is history: the value
\* np.average had inside the call
ApplySnrFloat ==
    /\ est.op = "input"
    /\ est.fn = "float_snr"
    /\ est' = [est EXCEPT !.op = "calculate_simple_snr_float",
                          !.mean = np_average_float(est.spectrum),
                          !.result = calculate_simple_snr_float(est.spectrum)]
    /\ UNCHANGED <<sweep_vars, nb>>

FloatNext == ApplySnrFloat

FloatSpec == FloatInit /\ [][FloatNext]_vars

AllInit ==
    \/ Init
    \/ EstInit
    \/ StepInit
    \/ AnalysisInit
    \/ FloatInit

AllNext ==
    \/ Next
    \/ EstNext
    \/ StepNext
    \/ AnalysisNext
    \/ FloatNext

AllSpec == AllInit /\ [][AllNext]_vars

(***************************************************************************)
(* Properties.  Helpers first: they read the history, not the code.        *)
(***************************************************************************)
NumFrequencies == Len(frequencies)
NumGenerators == Len(generators)
NumAnalysers == Len(analysers)

LastEvent == trace[Len(trace)]

GeneratorCalls == {"enable", "gain", "centre_frequency"}
AnalyserCalls == {"selector", "plot", "update_spectrum", "get_spectrum"}

\* the calls of one kind made (and returned) for list entry j on target c
CallsOf(call, j, c) ==
    {i \in 1..Len(trace) :
        /\ trace[i].call = call
        /\ trace[i].ok
        /\ trace[i].fi = j
        /\ trace[i].target = c}

\* the settle delay of list entry j has completed
Settled(j) == \E i \in 1..Len(trace) : trace[i].call = "sleep" /\ trace[i].fi = j

\* the list entry and the analyser the m-th recorded measurement is for
EntryOf(m) == ((m - 1) \div NumAnalysers) + 1
AnalyserOf(m) == ((m - 1) % NumAnalysers) + 1

\* k is a bin (0-based) at which s attains its maximum / its only such bin
IsMaxBin(s, k) == \A j \in 1..Len(s) : s[j] <= s[k + 1]
IsSingleMaxBin(s, k) == \A j \in 1..Len(s) : j # k + 1 => s[j] < s[k + 1]

\* k*(fs/N) + receive_frequency - fs/2
FundamentalAtBin(k, fs, N, rc) == k * (fs \div N) + rc - fs \div 2

\* the values (MHz) the sweep can record for a capture
RecordableFundamentals(capture) ==
    {HzToMHz(f) :
        f \in calculate_fundamental(capture.spectrum, sample_frequency,
                                    number_samples,
                                    MHzToHz(capture.centre_frequency))}

(***************************************************************************)
(* C1: run_spectrum_sweep returns one table per analyser; column j of      *)
(* table c is (frequencies[j], the fundamental and the SNR computed from   *)
(* the spectrum analyser c produced in the iteration for frequencies[j]),  *)
(* and every row has len(frequencies) entries in list order.               *)
(***************************************************************************)
C1_TablesHoldOwnMeasurements ==
    returned # <<>> =>
        LET tables == returned[1]
        IN  /\ Len(tables) = NumAnalysers
            /\ \A c \in 1..NumAnalysers :
                  /\ Len(tables[c]) = 3
                  /\ \A r \in 1..3 : Len(tables[c][r]) = NumFrequencies
                  /\ \A j \in 1..NumFrequencies :
                        /\ tables[c][1][j] = frequencies[j]
                        /\ \E i \in CallsOf("update_spectrum", j, c) :
                              /\ CallsOf("update_spectrum", j, c) = {i}
                              /\ tables[c][2][j] \in RecordableFundamentals(trace[i].arg)
                              /\ tables[c][3][j] = calculate_simple_snr(trace[i].arg.spectrum)

\* two analysers on different RF paths measured two different frequencies
\* and the call returned tables that differ
C1_Witness ==
    /\ returned # <<>>
    /\ NumAnalysers = 2
    /\ NumFrequencies = 2
    /\ frequencies[1] # frequencies[2]
    /\ returned[1][1][2] # returned[1][2][2]
    /\ returned[1][1][3] # returned[1][2][3]
    /\ returned[1][1][2][1] # returned[1][1][2][2]

(***************************************************************************)
(* C2: for every frequency, all generators are set to it before the        *)
(* settle delay starts, the delay completes before any analyser is         *)
(* reconfigured or refreshed for it, and each recorded pair comes from a   *)
(* spectrum obtained by an update_spectrum call made after that delay.     *)
(* Stated of the call just made and the measurement just recorded, in      *)
(* every state: the history only grows, so it holds of all of them.        *)
(***************************************************************************)
C2_SettleBetweenStimulusAndCapture ==
    /\ pc = "sleep" =>
          \A g \in 1..NumGenerators :
              /\ generators[g].centre_frequency = frequencies[fi]
              /\ CallsOf("centre_frequency", fi, g) # {}
    /\ (Len(trace) > 0 /\ LastEvent.call \in GeneratorCalls) =>
          ~Settled(LastEvent.fi)
    /\ (Len(trace) > 0 /\ LastEvent.call \in AnalyserCalls) =>
          Settled(LastEvent.fi)
    /\ Len(source) = Len(fundamental)
    /\ Len(source) = Len(snr)
    /\ Len(source) > 0 =>
          LET m == Len(source)
              u == source[m]
          IN  /\ u >= 1
              /\ trace[u].call = "update_spectrum"
              /\ trace[u].ok
              /\ trace[u].fi = EntryOf(m)
              /\ trace[u].target = AnalyserOf(m)
              /\ \E i \in 1..(u - 1) :
                    trace[i].call = "sleep" /\ trace[i].fi = EntryOf(m)
              /\ fundamental[m] \in RecordableFundamentals(trace[u].arg)
              /\ snr[m] = calculate_simple_snr(trace[u].arg.spectrum)

\* the second list entry, a different frequency, has been measured
C2_Witness ==
    /\ Len(source) > NumAnalysers
    /\ NumGenerators > 0
    /\ frequencies[1] # frequencies[2]
    /\ trace[source[Len(source)]].fi = 2
    /\ pc = "sleep" \/ pc = "selector" \/ pc = "build"

(***************************************************************************)
(* C3 as claimed: the driver's state changes only along                    *)
(* IDLE -> CONFIGURE_TX -> SETTLE -> CONFIGURE_RX -> CAPTURE_ANALYZE ->    *)
(* RECORD, and from RECORD only to CONFIGURE_TX or DONE, for any number of  *)
(* generators and analysers (read here for a sweep that has at least one   *)
(* frequency, one generator and one analyser, so that no state is empty).  *)
(***************************************************************************)
ClaimedTransitions ==
    {<<"IDLE", "CONFIGURE_TX">>, <<"CONFIGURE_TX", "SETTLE">>,
     <<"SETTLE", "CONFIGURE_RX">>, <<"CONFIGURE_RX", "CAPTURE_ANALYZE">>,
     <<"CAPTURE_ANALYZE", "RECORD">>, <<"RECORD", "CONFIGURE_TX">>,
     <<"RECORD", "DONE">>}

C3_OnlyClaimedTransitions ==
    [][(/\ NumFrequencies > 0
        /\ NumGenerators > 0
        /\ NumAnalysers > 0
        /\ state' # state)
       => <<state, state'>> \in ClaimedTransitions]_vars

(***************************************************************************)
(* C3 as amended: the state changes only along IDLE -> CONFIGURE_TX ->     *)
(* SETTLE -> CONFIGURE_RX -> CAPTURE_ANALYZE -> RECORD; from RECORD it     *)
(* goes to CONFIGURE_RX for the next analyser at the same frequency, to    *)
(* CONFIGURE_TX for the next frequency, or to DONE; and a state with       *)
(* nothing to do is skipped: CONFIGURE_TX when there is no generator,      *)
(* CONFIGURE_RX .. RECORD when there is no analyser, all of them when the  *)
(* frequency list is empty.                                                *)
(***************************************************************************)
\* the first state of an iteration of the frequency loop
IterationEntry == IF NumGenerators > 0 THEN "CONFIGURE_TX" ELSE "SETTLE"

AmendedTransition(from, to) ==
    \/ from = "IDLE" /\ NumFrequencies = 0 /\ to = "DONE"
    \/ from = "IDLE" /\ NumFrequencies > 0 /\ to = IterationEntry
    \/ from = "CONFIGURE_TX" /\ to = "SETTLE"
    \/ from = "SETTLE" /\ NumAnalysers > 0 /\ to = "CONFIGURE_RX"
    \/ from = "SETTLE" /\ NumAnalysers = 0 /\ to \in {IterationEntry, "DONE"}
    \/ from = "CONFIGURE_RX" /\ to = "CAPTURE_ANALYZE"
    \/ from = "CAPTURE_ANALYZE" /\ to = "RECORD"
    \/ from = "RECORD" /\ NumAnalysers > 1 /\ to = "CONFIGURE_RX"
    \/ from = "RECORD" /\ to \in {IterationEntry, "DONE"}

C3_OnlyAmendedTransitions ==
    [][state' # state => AmendedTransition(state, state')]_vars

\* the second analyser is being configured after the first one's record
C3_Witness ==
    /\ state = "CONFIGURE_RX"
    /\ ai = 2
    /\ Len(fundamental) = 1
    /\ NumGenerators > 0

(***************************************************************************)
(* C4: when the spectrum an analyser produced has its single maximum in    *)
(* the bin that holds the transmit frequency relative to the receive       *)
(* centre frequency selected, the table reports a fundamental equal to     *)
(* the transmit frequency, for every list entry that is a multiple of the  *)
(* bin width in [0, 2*fs); and if moreover each such spectrum has its      *)
(* peak 90 dB above its mean, the table is (f, f, 90) throughout.          *)
(***************************************************************************)
\* the bin of a capture that holds frequency f (MHz); outside 0..N-1 when
\* f is outside the band of the capture
BinHolding(f, capture) ==
    (MHzToHz(f) - MHzToHz(capture.centre_frequency) + sample_frequency \div 2)
        \div (sample_frequency \div number_samples)

\* the spectrum of the capture shows the tone f alone in its bin
ShowsTone(capture, f) ==
    LET k == BinHolding(f, capture)
    IN  /\ k \in 0..(number_samples - 1)
        /\ IsSingleMaxBin(capture.spectrum, k)

OnBinGrid(f) ==
    /\ f % BinWidthMHz = 0
    /\ 0 <= f
    /\ f < 2 * HzToMHz(sample_frequency)

\* the capture analyser c made for list entry j
CaptureFor(j, c) ==
    trace[CHOOSE i \in CallsOf("update_spectrum", j, c) : TRUE].arg

C4_LoopbackReportsTransmitFrequency ==
    returned # <<>> =>
        LET tables == returned[1]
        IN  /\ \A c \in 1..NumAnalysers : \A j \in 1..NumFrequencies :
                  (OnBinGrid(frequencies[j])
                   /\ ShowsTone(CaptureFor(j, c), frequencies[j]))
                  => tables[c][2][j] = frequencies[j]
            /\ \A c \in 1..NumAnalysers :
                  (\A j \in 1..NumFrequencies :
                      /\ OnBinGrid(frequencies[j])
                      /\ ShowsTone(CaptureFor(j, c), frequencies[j])
                      /\ calculate_simple_snr(CaptureFor(j, c).spectrum) = <<90, 1>>)
                  => tables[c] = <<frequencies, frequencies,
                                   [j \in 1..NumFrequencies |-> <<90, 1>>]>>

\* a loopback analyser measured two different frequencies of the bin grid,
\* one in each zone, and its table is (f, f, 90)
C4_Witness ==
    /\ returned # <<>>
    /\ NumAnalysers > 0
    /\ NumFrequencies = 2
    /\ frequencies[1] < frequencies[2]
    /\ \A j \in 1..2 :
          /\ OnBinGrid(frequencies[j])
          /\ ShowsTone(CaptureFor(j, 1), frequencies[j])
    /\ returned[1][1] = <<frequencies, frequencies, << <<90, 1>>, <<90, 1>> >> >>

(***************************************************************************)
(* C5: the sweep selects the receive centre 1228.8 MHz when f*1e6 is       *)
(* below the sample frequency and 3686.4 MHz otherwise (so also for f      *)
(* equal to it), and the analyser's frequency selector holds that value    *)
(* (MHz) and its plot centre that value*1e6 (Hz) when the spectrum is      *)
(* refreshed.                                                              *)
(***************************************************************************)
\* 1228.8 MHz below 2457.6 MHz, 3686.4 MHz from there on (in kHz)
ClaimedZone(f) == IF f < 2457600 THEN 1228800 ELSE 3686400

C5_ZoneSetBeforeRefresh ==
    pc = "get_spectrum" =>
        LET zone == ClaimedZone(frequencies[fi])
        IN  /\ receive_frequency = zone
            /\ LastEvent.call = "update_spectrum"
            /\ LastEvent.target = ai
            /\ LastEvent.arg.centre_frequency = zone
            /\ LastEvent.arg.plot_centre_frequency = zone * 100
            /\ analysers[ai].centre_frequency = zone
            /\ analysers[ai].plot_centre_frequency = zone * 100

\* a spectrum was refreshed for a transmit frequency equal to the sample
\* frequency, with the analyser in the high zone
C5_Witness ==
    /\ pc = "get_spectrum"
    /\ frequencies[fi] = 2457600
    /\ analysers[ai].centre_frequency = 3686400
    /\ analysers[ai].plot_centre_frequency = 368640000

(***************************************************************************)
(* C6: a collaborator call that raises ends the sweep there: the error     *)
(* leaves run_spectrum_sweep as raised, the failed call is the last call   *)
(* made (none follows, none is repeated), and nothing is returned.         *)
(***************************************************************************)
C6_RaiseIsFatal ==
    /\ \A i \in 1..Len(trace) :
          ~trace[i].ok =>
              /\ i = Len(trace)
              /\ pc = "raised"
              /\ raised = trace[i].arg
    /\ pc = "raised" =>
          /\ Len(trace) > 0
          /\ ~LastEvent.ok
          /\ LastEvent.call \in CallSites
          /\ raised \in Errors
          /\ returned = <<>>
          /\ results = <<>>
          /\ ~ENABLED Next

\* update_spectrum raised after earlier frequencies had been measured
C6_Witness ==
    /\ pc = "raised"
    /\ LastEvent.call = "update_spectrum"
    /\ LastEvent.fi = 2
    /\ Len(fundamental) >= 1
    /\ returned = <<>>

(***************************************************************************)
(* C7: with collaborators that do not raise the sweep reaches DONE, and    *)
(* by then it has slept once per list entry and made one update_spectrum   *)
(* followed by one get_spectrum per (list entry, analyser), recording one  *)
(* measurement for each.                                                   *)
(***************************************************************************)
SweptOnce ==
    /\ \A j \in 1..NumFrequencies :
          /\ Cardinality(CallsOf("sleep", j, 0)) = 1
          /\ \A c \in 1..NumAnalysers :
                \E u \in CallsOf("update_spectrum", j, c) :
                \E g \in CallsOf("get_spectrum", j, c) :
                    /\ CallsOf("update_spectrum", j, c) = {u}
                    /\ CallsOf("get_spectrum", j, c) = {g}
                    /\ u < g
                    /\ source[(j - 1) * NumAnalysers + c] = u
    /\ Cardinality({i \in 1..Len(trace) : trace[i].call = "sleep"}) = NumFrequencies
    /\ Cardinality({i \in 1..Len(trace) : trace[i].call = "update_spectrum"})
          = NumFrequencies * NumAnalysers
    /\ Cardinality({i \in 1..Len(trace) : trace[i].call = "get_spectrum"})
          = NumFrequencies * NumAnalysers
    /\ Len(fundamental) = NumFrequencies * NumAnalysers
    /\ Len(snr) = NumFrequencies * NumAnalysers

C7_TerminatesHavingSweptOnce ==
    /\ <>(pc = "done")
    /\ [](pc = "done" => SweptOnce)

\* a sweep of two frequencies over two analysers is done
C7_Witness ==
    /\ pc = "done"
    /\ NumFrequencies = 2
    /\ NumAnalysers = 2
    /\ NumGenerators > 0
    /\ Len(fundamental) = 4

(***************************************************************************)
(* C8 as claimed: the peak bin calculate_fundamental uses is the lowest    *)
(* index at which the spectrum attains its maximum, also when the maximum  *)
(* occurs at two or more bins.                                             *)
(***************************************************************************)
IsLowestMaxBin(s, k) ==
    /\ IsMaxBin(s, k)
    /\ \A j \in 0..(k - 1) : s[j + 1] < s[k + 1]

C8_LowestPeakBinUsed ==
    est.op = "calculate_fundamental" =>
        \A k \in 0..(Len(est.spectrum) - 1) :
            IsLowestMaxBin(est.spectrum, k) =>
                est.result = FundamentalAtBin(k, est.sample_frequency,
                                              est.number_samples,
                                              est.receive_frequency)

(***************************************************************************)
(* C8 as amended: the peak bin calculate_fundamental uses is an index at   *)
(* which the spectrum attains its maximum; when the maximum occurs at two  *)
(* or more bins it need not be the lowest of them.                         *)
(***************************************************************************)
C8_SomePeakBinUsed ==
    est.op = "calculate_fundamental" =>
        \E k \in 0..(Len(est.spectrum) - 1) :
            /\ est.result = FundamentalAtBin(k, est.sample_frequency,
                                             est.number_samples,
                                             est.receive_frequency)
            /\ IsMaxBin(est.spectrum, k)

\* the maximum occurs at bins 0 and 1 and the bin used is bin 1
C8_Witness ==
    /\ est.op = "calculate_fundamental"
    /\ Len(est.spectrum) >= 2
    /\ IsMaxBin(est.spectrum, 0)
    /\ IsMaxBin(est.spectrum, 1)
    /\ est.result = FundamentalAtBin(1, est.sample_frequency, est.number_samples,
                                     est.receive_frequency)
    /\ est.result # FundamentalAtBin(0, est.sample_frequency, est.number_samples,
                                     est.receive_frequency)

(***************************************************************************)
(* C9: for a spectrum of N bins with its single maximum at bin k,          *)
(* calculate_fundamental returns k*(fs/N) + receive_frequency - fs/2;      *)
(* with receive centre 0 that is within one bin width of k*(fs/N) - fs/2.  *)
(***************************************************************************)
C9_FundamentalOfSinglePeak ==
    est.op = "calculate_fundamental" =>
        \A k \in 0..(Len(est.spectrum) - 1) :
            IsSingleMaxBin(est.spectrum, k) =>
                /\ est.result = k * (est.sample_frequency \div Len(est.spectrum))
                                    + est.receive_frequency
                                    - est.sample_frequency \div 2
                /\ est.receive_frequency = 0 =>
                      Abs(est.result
                          - (k * (est.sample_frequency \div Len(est.spectrum))
                             - est.sample_frequency \div 2))
                          <= est.sample_frequency \div Len(est.spectrum)

\* N = 1024, fs = 2.4576e9, receive centre 0, single maximum at bin 512:
\* the fundamental is 512*2.4e6 - 1.2288e9 = 0
C9_Witness ==
    /\ est.op = "calculate_fundamental"
    /\ Len(est.spectrum) = 1024
    /\ est.sample_frequency = 245760000
    /\ est.receive_frequency = 0
    /\ IsSingleMaxBin(est.spectrum, 512)
    /\ est.result = 0

(***************************************************************************)
(* C10: calculate_simple_snr returns max(spectrum) - mean(spectrum), the   *)
(* mean taken over all bins, the peak bin included; for N bins equal to F  *)
(* but for one bin of value H > F that is H - ((N-1)*F + H)/N.             *)
(***************************************************************************)
\* the sum of all bins, value by value: each value times the number of
\* bins that hold it
RECURSIVE WeightedSum(_, _)
WeightedSum(s, V) ==
    IF V = {} THEN 0
    ELSE LET v == CHOOSE x \in V : TRUE
         IN  v * Cardinality({i \in 1..Len(s) : s[i] = v}) + WeightedSum(s, V \ {v})

SumOfBins(s) == WeightedSum(s, Range(s))

\* the rational r equals num/den (den > 0)
RatIs(r, num, den) == r[2] > 0 /\ r[1] * den = num * r[2]

C10_SnrIsPeakMinusMean ==
    est.op = "calculate_simple_snr" =>
        LET s == est.spectrum
            N == Len(s)
        IN  /\ \A k \in 0..(N - 1) :
                  IsMaxBin(s, k) => RatIs(est.result, N * s[k + 1] - SumOfBins(s), N)
            /\ \A k \in 0..(N - 1) : \A F \in Range(s) :
                  (s[k + 1] > F /\ s = SpikeSpectrum(N, k, s[k + 1], F)) =>
                      RatIs(est.result, N * s[k + 1] - ((N - 1) * F + s[k + 1]), N)

\* 1024 bins at -90 but for one at 0: the SNR is 90*1023/1024 = 46035/512
C10_Witness ==
    /\ est.op = "calculate_simple_snr"
    /\ est.spectrum = SpikeSpectrum(1024, 512, 0, -90)
    /\ est.result = <<46035, 512>>

(***************************************************************************)
(* C11.  For a sample vector x and a window w of the same length N, the    *)
(* windowing step produces a vector y of length N with y[i] = x[i]*w[i]    *)
(* for every i.                                                            *)
(***************************************************************************)
C11_WindowingIsElementwiseProduct ==
    (est.op = "windowing" /\ Len(est.data) = Len(est.window)) =>
        /\ est.result.ok
        /\ Len(est.result.value) = Len(est.data)
        /\ \A i \in 1..Len(est.data) :
              /\ est.result.value[i].re = est.data[i].re * est.window[i]
              /\ est.result.value[i].im = est.data[i].im * est.window[i]

C11_Witness ==
    /\ est.op = "windowing"
    /\ Len(est.data) = 3
    /\ est.data = <<Complex(1, 0), Complex(0, -2), Complex(1, 0)>>
    /\ est.window = <<2, 2, 1>>
    /\ est.result.value = <<Complex(2, 0), Complex(0, -4), Complex(1, 0)>>

(***************************************************************************)
(* C12.  Whenever the sample vector and the window differ in length, the   *)
(* windowing step fails with a length-mismatch error and produces no       *)
(* windowed vector, also when one of the two has length 1.  (Stated for    *)
(* non-empty vectors.)                                                     *)
(***************************************************************************)
C12_LengthMismatchFails ==
    (/\ est.op = "windowing"
     /\ Len(est.data) >= 1
     /\ Len(est.window) >= 1
     /\ Len(est.data) # Len(est.window)) =>
        /\ ~est.result.ok
        /\ est.result.error = "ValueError"
        /\ est.result.value = <<>>

(***************************************************************************)
(* C13.  Applying the centering reorder twice to a sequence of even length *)
(* returns the original ordering.                                          *)
(***************************************************************************)
C13_FftshiftTwiceIsIdentityOnEvenLength ==
    (est.op = "fftshift_twice" /\ Len(est.data) % 2 = 0) =>
        est.result = est.data

C13_Witness ==
    /\ est.op = "fftshift_twice"
    /\ Len(est.data) = 4
    /\ est.data[1] # est.data[3]
    /\ est.data[2] # est.data[4]
    /\ est.result = est.data

(***************************************************************************)
(* C14.  After the centering reorder of an N-point transform, for every N  *)
(* (odd N included) and every i in 0..N-1, bin i holds the coefficient of  *)
(* frequency -fs/2 + i*(fs/N), which is also the frequency the plot's      *)
(* x-axis gives position i.  (Stated for N >= 3.)                          *)
(***************************************************************************)
\* the frequency of the coefficient with frequency index k
FrequencyOfIndex(k, fs, N) == k * (fs \div N)

C14_BinHoldsAxisFrequency ==
    (est.op = "transform" /\ Len(est.data) >= 3) =>
        LET N == Len(est.data)
        IN  \A i \in 0..(N - 1) :
               /\ FrequencyOfIndex(est.result[i + 1].k, est.fs, N)
                     = -(est.fs \div 2) + i * (est.fs \div N)
               /\ FrequencyOfIndex(est.result[i + 1].k, est.fs, N)
                     = plot_x_axis(N, est.fs, 0)[i + 1]

(***************************************************************************)
(* C15.  For a bin of magnitude a, fs > 0 and window energy                *)
(* E = sum(w[k]^2) > 0, freq_to_psd returns 10*log10(a^2/(fs*E)) when that *)
(* ratio is positive and exactly 0 when it is not, bin by bin.             *)
(***************************************************************************)
WindowEnergy(w) == SumOfBins([i \in 1..Len(w) |-> w[i] * w[i]])

\* v is 10*log10(num/den)
IsTenLog10Of(v, num, den) == RatIs(v.ten_log10_of, num, den)

\* v is the number 0
IsZeroDb(v) == v.ten_log10_of = <<1, 1>>

C15_PsdFormulaWithZeroClamp ==
    (est.op = "freq_to_psd" /\ est.fs > 0 /\ WindowEnergy(est.window) > 0) =>
        /\ Len(est.result) = Len(est.data)
        /\ \A i \in 1..Len(est.data) :
              LET a2 == AbsSquared(est.data[i])
              IN  IF a2 > 0
                  THEN IsTenLog10Of(est.result[i], a2,
                                    est.fs * WindowEnergy(est.window))
                  ELSE IsZeroDb(est.result[i])

C15_Witness ==
    /\ est.op = "freq_to_psd"
    /\ est.data = <<Complex(0, 0), Complex(0, -2), Complex(1, 0)>>
    /\ est.window = <<1, 2>>
    /\ est.fs = 2
    /\ est.result = <<[ten_log10_of |-> <<1, 1>>], [ten_log10_of |-> <<2, 5>>],
                      [ten_log10_of |-> <<1, 10>>]>>

(***************************************************************************)
(* C18.  Called without a window, freq_to_psd normalises with an all-ones  *)
(* window whose energy is the length of the data vector passed in: the     *)
(* ratio is |Y[i]|^2/(fs*len(data)) for every data length.  (Stated for    *)
(* the bins of non-zero magnitude.)                                        *)
(***************************************************************************)
C18_DefaultWindowEnergyIsDataLength ==
    est.op = "freq_to_psd_default" =>
        \A i \in 1..Len(est.data) :
            AbsSquared(est.data[i]) > 0 =>
                IsTenLog10Of(est.result[i], AbsSquared(est.data[i]),
                             est.fs * Len(est.data))

(***************************************************************************)
(* C20.  freq_to_psd preserves the ordering of bin powers: for any two     *)
(* bins i and j of one spectrum, |Y[i]| <= |Y[j]| implies                  *)
(* PSD[i] <= PSD[j], also when some bin has magnitude 0 and the others a   *)
(* ratio below 1.                                                          *)
(***************************************************************************)
\* u <= v for two values in dB
DbLeq(u, v) ==
    u.ten_log10_of[1] * v.ten_log10_of[2] <= v.ten_log10_of[1] * u.ten_log10_of[2]

C20_PsdPreservesOrder ==
    (est.op = "freq_to_psd" /\ WindowEnergy(est.window) > 0) =>
        \A i, j \in 1..Len(est.data) :
            AbsSquared(est.data[i]) <= AbsSquared(est.data[j]) =>
                DbLeq(est.result[i], est.result[j])

\* Amended: the ordering is preserved among the bins of non-zero magnitude,
\* and a bin of magnitude 0 holds exactly 0 dB (which is above every bin
\* whose ratio is below 1).
C20_PsdPreservesOrderOfNonZeroBins ==
    (est.op = "freq_to_psd" /\ WindowEnergy(est.window) > 0) =>
        \A i, j \in 1..Len(est.data) :
            /\ (0 < AbsSquared(est.data[i])
                  /\ AbsSquared(est.data[i]) <= AbsSquared(est.data[j])) =>
                    DbLeq(est.result[i], est.result[j])
            /\ AbsSquared(est.data[i]) = 0 => IsZeroDb(est.result[i])

\* a bin of magnitude 0 holds the largest PSD, above two bins of different
\* non-zero magnitude that are in order
C20_Witness ==
    /\ est.op = "freq_to_psd"
    /\ est.data = <<Complex(1, 0), Complex(0, 0), Complex(0, -2)>>
    /\ est.window = <<2, 1>>
    /\ est.fs = 1
    /\ DbLeq(est.result[1], est.result[3])
    /\ ~DbLeq(est.result[2], est.result[3])
    /\ IsZeroDb(est.result[2])

(***************************************************************************)
(* C16.  At every stage of the analysis pipeline the vector length is      *)
(* preserved: the window has the length N of the captured sample vectors,  *)
(* and the windowed vectors, the shifted spectra and the PSD vectors each  *)
(* have exactly N entries.                                                 *)
(***************************************************************************)
VectorsHaveLength(vs, n) == \A i \in 1..Len(vs) : Len(vs[i]) = n

\* the channels the notebook analyses: 2, 3, ..
AnalysedChannels == IF nb.channels > 2 THEN nb.channels - 2 ELSE 0

C16_LengthPreserved ==
    nb.cell # "not_run" =>
        /\ nb.cell # "raised"
        /\ nb.cell # "capture" =>
              /\ Len(nb.cdata) = nb.channels
              /\ VectorsHaveLength(nb.cdata, analysis_number_samples)
        /\ nb.cell \notin {"capture", "window"} =>
              /\ Len(nb.window) = analysis_number_samples
              /\ \A i \in 1..Len(nb.cdata) : Len(nb.window) = Len(nb.cdata[i])
        /\ nb.cell \in {"fft", "magfigs", "psd", "psdfigs", "done"} =>
              /\ Len(nb.wdata) = AnalysedChannels
              /\ VectorsHaveLength(nb.wdata, analysis_number_samples)
        /\ nb.cell \in {"magfigs", "psd", "psdfigs", "done"} =>
              /\ Len(nb.fdata) = AnalysedChannels
              /\ VectorsHaveLength(nb.fdata, analysis_number_samples)
        /\ nb.cell \in {"psdfigs", "done"} =>
              /\ Len(nb.psd) = AnalysedChannels
              /\ VectorsHaveLength(nb.psd, analysis_number_samples)

C16_Witness ==
    /\ nb.cell = "done"
    /\ nb.channels = 4
    /\ Len(nb.psd) = 2
    /\ Len(nb.psd[2]) = analysis_number_samples
    /\ Len(nb.cdata[4]) = analysis_number_samples

(***************************************************************************)
(* C17.  The numeric steps are pure: windowing, the transform with the     *)
(* centering reorder and freq_to_psd leave the captured sample vectors and *)
(* the window coefficients unchanged; calculate_fundamental and            *)
(* calculate_simple_snr leave the spectrum they are given unchanged; and   *)
(* run_spectrum_sweep leaves the frequency list unchanged.                 *)
(***************************************************************************)
C17_StepLeavesInputs ==
    /\ frequencies' = frequencies
    /\ nb.cell \notin {"not_run", "capture"} => nb'.cdata = nb.cdata
    /\ nb.cell \notin {"not_run", "capture", "window"} => nb'.window = nb.window
    /\ (est.fn = "estimator" /\ est.op = "input") => est'.spectrum = est.spectrum
    /\ (est.fn \in {"windowing", "fftshift", "transform", "freq_to_psd",
                    "freq_to_psd_default"}) =>
            est'.data = est.data
    /\ (est.fn \in {"windowing", "freq_to_psd"}) => est'.window = est.window

C17_NumericStepsArePure == [][C17_StepLeavesInputs]_vars

\* the analysis notebook has run, and windowing produced vectors that
\* differ from the captured ones
C17_Witness ==
    /\ nb.cell = "done"
    /\ nb.channels = 4
    /\ nb.wdata[1] # nb.cdata[3]
    /\ nb.wdata[2] # nb.cdata[4]
    /\ nb.window = np_blackman(analysis_number_samples)

(***************************************************************************)
(* C19.  In each CONFIGURE_TX step every generator is written in the order *)
(* enable=True, gain=amplitude, centre_frequency=f; when the settle delay  *)
(* starts all generators are enabled with gain = amplitude and centre      *)
(* frequency = f; and once the sweep is DONE every generator is still      *)
(* enabled at the last list frequency.                                     *)
(***************************************************************************)
\* generator g as the sweep leaves it while entry j is transmitted
ConfiguredFor(g, j) ==
    /\ generators[g].enable = TRUE
    /\ generators[g].gain = amplitude
    /\ generators[g].centre_frequency = frequencies[j]

\* event n of the history is the successful write `call` to generator g
\* during entry j
IsWrite(n, call, g, j) ==
    /\ n >= 1
    /\ trace[n].call = call
    /\ trace[n].target = g
    /\ trace[n].fi = j
    /\ trace[n].ok

\* the last write made to a generator continues the order enable, gain,
\* centre_frequency, generator after generator
LastWriteInOrder ==
    LET n == Len(trace)
        e == LastEvent
    IN  (n >= 1 /\ e.ok /\ e.call \in GeneratorCalls) =>
            /\ e.call = "enable" =>
                  /\ e.arg = TRUE
                  /\ e.target > 1 =>
                        IsWrite(n - 1, "centre_frequency", e.target - 1, e.fi)
            /\ e.call = "gain" =>
                  /\ e.arg = amplitude
                  /\ IsWrite(n - 1, "enable", e.target, e.fi)
            /\ e.call = "centre_frequency" =>
                  /\ e.arg = frequencies[e.fi]
                  /\ IsWrite(n - 1, "gain", e.target, e.fi)
                  /\ IsWrite(n - 2, "enable", e.target, e.fi)

C19_GeneratorsWrittenInOrderAndLeftOn ==
    /\ LastWriteInOrder
    /\ pc = "sleep" => \A g \in 1..NumGenerators : ConfiguredFor(g, fi)
    /\ (pc = "done" /\ NumFrequencies > 0) =>
            \A g \in 1..NumGenerators : ConfiguredFor(g, NumFrequencies)

C19_Witness ==
    /\ pc = "done"
    /\ NumGenerators = 2
    /\ NumFrequencies = 2
    /\ frequencies[1] # frequencies[2]
    /\ frequencies[2] # 600000
    /\ ConfiguredFor(1, 2)
    /\ ConfiguredFor(2, 2)
    /\ IsWrite(1, "enable", 1, 1)
    /\ IsWrite(2, "gain", 1, 1)
    /\ IsWrite(3, "centre_frequency", 1, 1)

(***************************************************************************)
(* C21.  Every spectrum figure of the analysis notebook is self-consistent *)
(* about its channel: for each figure in magfigs and psdfigs, the receiver *)
(* channel whose captured samples are plotted, the channel number in the   *)
(* title and the receiver channel whose mixer frequency is the x-axis      *)
(* centre fc are the same channel, so the x axis is centred on the mixer   *)
(* frequency of the channel the title names.                               *)
(***************************************************************************)
FigureIsOfOneChannel(entry) ==
    /\ entry.data_channel = entry.figure.title.channel
    /\ entry.fc_channel = entry.figure.title.channel
    /\ entry.figure.x =
            plot_x_axis(analysis_number_samples, analysis_sample_frequency,
                        round(Abs(nb.mixer[entry.figure.title.channel + 1])))

C21_FiguresAreOfOneChannel ==
    nb.cell \notin {"not_run", "raised"} =>
        /\ \A k \in 1..Len(nb.magfigs) : FigureIsOfOneChannel(nb.magfigs[k])
        /\ \A k \in 1..Len(nb.psdfigs) : FigureIsOfOneChannel(nb.psdfigs[k])

(***************************************************************************)
(* C22.  For every spectrum of number_samples bins returned by an          *)
(* analyser, the fundamental the sweep records lies in                     *)
(* [receive_centre - fs/2, receive_centre + fs/2): in [0, 2457.6) MHz when *)
(* the transmit frequency is below the sample frequency and in             *)
(* [2457.6, 4915.2) MHz otherwise, whatever the transmit frequency is.     *)
(* The estimator alone, on any spectrum, stays in the band around the      *)
(* receive centre it is given.                                             *)
(***************************************************************************)
C22_FundamentalWithinReceiveBand ==
    /\ \A m \in 1..Len(fundamental) :
          LET f == frequencies[EntryOf(m)]
              rc == IF MHzToHz(f) < sample_frequency
                    THEN frequency_zones[1] ELSE frequency_zones[2]
          IN  /\ rc - HzToMHz(sample_frequency) \div 2 <= fundamental[m]
              /\ fundamental[m] < rc + HzToMHz(sample_frequency) \div 2
              /\ IF MHzToHz(f) < sample_frequency
                 THEN 0 <= fundamental[m] /\ fundamental[m] < 2457600
                 ELSE 2457600 <= fundamental[m] /\ fundamental[m] < 4915200
    /\ est.op = "calculate_fundamental" =>
          /\ est.receive_frequency - est.sample_frequency \div 2 <= est.result
          /\ est.result < est.receive_frequency + est.sample_frequency \div 2

\* a sweep over one frequency below the sample frequency and the sample
\* frequency itself has returned: the first fundamental is in the lower
\* band, the last is the bottom bin of the upper band
C22_Witness ==
    /\ returned # <<>>
    /\ NumFrequencies = 2
    /\ MHzToHz(frequencies[1]) < sample_frequency
    /\ MHzToHz(frequencies[2]) = sample_frequency
    /\ NumAnalysers > 0
    /\ fundamental[1] < 2457600
    /\ fundamental[Len(fundamental)] = 2457600

(***************************************************************************)
(* C23.  For every non-empty spectrum calculate_simple_snr returns a value *)
(* >= 0, and it returns 0 exactly when all bins hold the same value.       *)
(***************************************************************************)
IsFlat(s) == \A i \in 1..Len(s) : s[i] = s[1]

C23_SnrNonNegativeAndZeroIffFlat ==
    est.op = "calculate_simple_snr_float" =>
        /\ RatLeq(<<0, 1>>, est.result)
        /\ est.result = <<0, 1>> <=> IsFlat(est.spectrum)

(***************************************************************************)
(* C23, as it holds: when the mean np.average computes is the exact mean   *)
(* of the bins, calculate_simple_snr returns a value >= 0, and 0 exactly   *)
(* when all bins hold the same value; for every non-empty spectrum it      *)
(* returns at least what it returns for the flat spectrum of the same      *)
(* length at the maximum, which is the rounding error of that mean.        *)
(***************************************************************************)
C23_SnrNonNegativeWhenMeanExact ==
    est.op = "calculate_simple_snr_float" =>
        LET s == est.spectrum
            flat == [i \in 1..Len(s) |-> np_max(s)]
        IN  /\ est.mean = np_average(s) =>
                  /\ RatLeq(<<0, 1>>, est.result)
                  /\ est.result = <<0, 1>> <=> IsFlat(s)
            /\ RatLeq(fl(RatSub(Rat(np_max(s), 1),
                                fl(Rat(np_add_reduce(flat, Len(s))[1],
                                       np_add_reduce(flat, Len(s))[2] * Len(s))))),
                      est.result)

\* a spectrum that is not flat and whose mean is computed exactly has a
\* positive result
C23_Witness ==
    /\ est.op = "calculate_simple_snr_float"
    /\ Len(est.spectrum) = 3
    /\ ~IsFlat(est.spectrum)
    /\ est.mean = np_average(est.spectrum)
    /\ est.result # <<0, 1>>
    /\ RatLeq(<<0, 1>>, est.result)

(***************************************************************************)
(* C24.  Called with an empty frequency list, run_spectrum_sweep writes no *)
(* generator or analyser property, performs no settle delay and no         *)
(* capture, and returns one table per analyser, each with the three rows   *)
(* and zero columns.                                                       *)
(***************************************************************************)
C24_EmptyListTouchesNothing ==
    (frequencies = <<>> /\ pc # "idle") =>
        /\ trace = <<>>
        /\ raised = "none"
        /\ state \in {"IDLE", "DONE"}
        /\ \A g \in 1..NumGenerators :
              generators[g] \in {FreshGenerator, InitialisedGenerator}
        /\ \A a \in 1..NumAnalysers :
              /\ analysers[a].centre_frequency = 0
              /\ analysers[a].plot_centre_frequency = 0
              /\ analysers[a].captured_at = 0
        /\ pc = "done" =>
              /\ Len(returned) = 1
              /\ Len(returned[1]) = NumAnalysers
              /\ \A c \in 1..NumAnalysers :
                    returned[1][c] = << <<>>, <<>>, <<>> >>

\* the sweep of an empty list has returned with two generators and two
\* analysers at hand: the generators are still off, two empty tables
C24_Witness ==
    /\ frequencies = <<>>
    /\ pc = "done"
    /\ NumGenerators = 2
    /\ NumAnalysers = 2
    /\ generators[1].enable = FALSE
    /\ returned = << << << <<>>, <<>>, <<>> >>, << <<>>, <<>>, <<>> >> >> >>


====
